---------------------------- MODULE Spec2Model ----------------------------
(***************************************************************************)
(* AI Dev Mentor: the VS Code extension (src/src/extension.ts) and its     *)
(* backend (src/unnamed/part_000, backend/server.js).                      *)
(*                                                                         *)
(* The specifications of this module:                                       *)
(*   Spec        the chat panel: webviews, the host's message bridge and   *)
(*               the NDJSON stream relay (streamChatToWebview);            *)
(*   SpecExplain the explain feature: handleExplain, postJson and the      *)
(*               bounded explanation cache;                                *)
(*   SpecChunk   the relay's line decoder run on one response body cut     *)
(*               into arbitrary chunks;                                    *)
(*   SpecRender  the webview's renderMarkdown run on one text;             *)
(*   SpecBackend one request, from the user's action through the backend's *)
(*               endpoint to the model provider;                           *)
(*   SpecSettle  the promises of postJson and streamChatToWebview under    *)
(*               the events of one request;                                *)
(*   SpecOutbound the outbound requests of a session of explain calls or   *)
(*               of chat turns;                                            *)
(*   SpecPanel   the life of the chat panel: opened, revealed, disposed,   *)
(*               and the extension deactivated;                            *)
(*   SpecSelection the selection watcher: selection events, the debounce   *)
(*               timer and its callback, with the explain feature.         *)
(*                                                                         *)
(* Text is a sequence of one-character strings.  A JSON record of the      *)
(* stream is written with two characters, a kind and a payload:            *)
(*   "d" x   {"delta": x}          "t" x   {"done": true, "text": x}       *)
(*   "o" x   a JSON object with neither key, e.g. {"ok":false,"error":x}   *)
(* with payload "0" for null, "e" for the empty string and any other       *)
(* payload character for a non-empty string.  Every other text is not      *)
(* JSON.  "\n" is the line feed and " " is white space.                    *)
(***************************************************************************)
EXTENDS Integers, Sequences, FiniteSets, TLC

VARIABLES
  currentPanel,      \* extension.ts:23  0 = undefined, else the index of the live panel
  webviews,          \* one record per panel ever created: its script state and channels
  streams,           \* one record per call of streamChatToWebview
  explanationCache,  \* extension.ts:17  insertion-ordered Map, as a sequence of entries
  requests,          \* the calls of postJson that are not settled yet
  ui,                \* the last notification shown by the explain feature
  lastCall,          \* the arguments and configuration of the last handleExplain call,
                     \* and whether it was served from the cache
  insertLog,         \* history: the keys given to explanationCache.set, in order
  lastInsert,        \* history: the cache sizes inside the last insertion
  lastSettle,        \* history: the last answer a postJson call was settled with
  build,             \* which activate of extension.ts runs: "current" or "legacy"
  lastSelectionKey,  \* extension.ts:22 and :820
  wire,              \* SpecChunk: one response body, its chunking and what was relayed
  page,              \* SpecRender: one Markdown text and what renderMarkdown made of it
  backend,           \* SpecBackend: one request to the backend, from the user's action on
  promise,           \* SpecSettle: one call of postJson and one of streamChatToWebview
  statusBarItem,     \* extension.ts:24  "shown" once activate has run, "disposed" after deactivate
  selectionTimeout,  \* extension.ts:21 and :819  the handle of the last setTimeout
                     \* (0 = undefined) and the timers set and neither fired nor
                     \* cleared; a timer is named by the selection event that set it
  editor             \* the editor of the last selection event: its selection and
                     \* language, the number of selection events so far, and
                     \* history: how many handleExplain calls had ended at that
                     \* event, and what the last debounce timer to fire did

vars == <<currentPanel, webviews, streams, explanationCache, requests, ui,
          lastCall, insertLog, lastInsert, lastSettle, build, lastSelectionKey,
          wire, page, backend, promise, statusBarItem, selectionTimeout, editor>>

chatVars == <<currentPanel, webviews, streams>>
otherVars == <<page, backend, promise>>
hostVars == <<statusBarItem, selectionTimeout, editor>>
explainVars ==
  <<explanationCache, requests, ui, lastCall, insertLog, lastInsert, lastSettle,
    build, lastSelectionKey>>

---------------------------------------------------------------------------
(* Bounds of the model *)

\* panels ever created
MaxPanels == 2
\* user turns (handleSend / seedFromExplain) over all panels
MaxTurns == 2
\* 'data' events per stream
MaxData == 2
\* length of a response body in SpecChunk
MaxBody == 4
\* calls of handleExplain
MaxCalls == 4
\* pieces of a free Markdown text in SpecRender
MaxPieces == 4
\* pieces of the body of a fenced block in SpecRender
MaxBlockPieces == 3
\* length of the text the model provider answers with in SpecBackend
MaxTextLen == 242
\* events of one request after its first in SpecSettle
MaxLateEvents == 2
\* capacity of the explanation cache.  The source sets 1000 (extension.ts:18);
\* the eviction code does not depend on the value, and the model runs it at
\* this capacity.
MAX_CACHE == 2
\* the chat turns, and the panels, of a session in which explain and chat are
\* both exercised
MaxOutboundTurns == 1
\* the explain calls of such a session
MaxOutboundCalls == 2

---------------------------------------------------------------------------
(* Text helpers *)

Null == <<"null">>           \* JavaScript's null where a string may stand
NL == "\n"
WhiteSpace == {" ", NL}

Last(s) == s[Len(s)]
Front(s) == SubSeq(s, 1, Len(s) - 1)

RECURSIVE Trim(_)
\* String.prototype.trim
Trim(s) ==
  IF s = <<>> THEN s
  ELSE IF Head(s) \in WhiteSpace THEN Trim(Tail(s))
  ELSE IF Last(s) \in WhiteSpace THEN Trim(Front(s))
  ELSE s

RECURSIVE SplitNL(_)
\* s.split("\n"): always at least one part
SplitNL(s) ==
  IF \A i \in 1..Len(s) : s[i] # NL THEN <<s>>
  ELSE LET i == CHOOSE j \in 1..Len(s) :
                  s[j] = NL /\ \A k \in 1..(j-1) : s[k] # NL
       IN <<SubSeq(s, 1, i - 1)>> \o SplitNL(SubSeq(s, i + 1, Len(s)))

KindChars == {"d", "t", "o"}
PayloadChars == {"a", "b", "c", "0", "e"}

\* JSON.parse of one line: white space around the value is skipped
JSONparse(line) ==
  LET t == Trim(line) IN
  IF Len(t) = 2 /\ t[1] \in KindChars /\ t[2] \in PayloadChars
  THEN [ok |-> TRUE, kind |-> t[1], val |-> t[2]]
  ELSE [ok |-> FALSE, kind |-> "", val |-> ""]

\* the value of a record's delta / text property
PayloadValue(c) == IF c = "0" THEN Null ELSE IF c = "e" THEN <<>> ELSE <<c>>

\* x || null
OrNull(x) == IF x = <<>> \/ x = Null THEN Null ELSE x

\* x || ''
OrEmpty(x) == IF x = Null THEN <<>> ELSE x

ObjectString == <<"[object Object]">>     \* String(obj) of a plain object

AiDelta(id, delta) == [type |-> "aiDelta", id |-> id, payload |-> delta]
AiDone(id, text) == [type |-> "aiDone", id |-> id, payload |-> text]


---------------------------------------------------------------------------
(* The stream relay's line decoder: streamChatToWebview, extension.ts:276-337 *)

\* the complete lines of the buffer after a chunk arrived
\* (buf += chunk; parts = buf.split("\n"); parts without its last element)
DataLines(buf, chunk) == Front(SplitNL(buf \o chunk))

\* a decoder that forgets the unterminated tail of a chunk
DataRestForgetsTail(buf, chunk) == <<>>

\* the partial trailing line kept for the next event (buf = parts.pop() || "")
DataRest(buf, chunk) == Last(SplitNL(buf \o chunk))

\* what the 'data' handler posts for one complete line (the body of its for loop)
LineData(line, id) ==
  IF Trim(line) = <<>> THEN <<>>
  ELSE LET obj == JSONparse(line) IN
       IF ~obj.ok THEN <<AiDelta(id, line)>>
       ELSE IF obj.kind = "d" THEN <<AiDelta(id, PayloadValue(obj.val))>>
       ELSE IF obj.kind = "t" THEN <<AiDone(id, OrNull(PayloadValue(obj.val)))>>
       ELSE <<AiDelta(id, ObjectString)>>

RECURSIVE ForwardLines(_, _)
\* what the 'data' handler posts for the lines of one event, in order
ForwardLines(lines, id) ==
  IF lines = <<>> THEN <<>>
  ELSE LineData(Head(lines), id) \o ForwardLines(Tail(lines), id)

\* what the 'end' handler posts for the trailing buffer
LineEnd(buf, id) ==
  IF Trim(buf) = <<>> THEN <<>>
  ELSE LET obj == JSONparse(buf) IN
       IF ~obj.ok THEN <<AiDelta(id, buf)>>
       ELSE IF obj.kind = "d" THEN <<AiDelta(id, PayloadValue(obj.val))>>
       ELSE IF obj.kind = "t" THEN <<AiDone(id, OrNull(PayloadValue(obj.val)))>>
       ELSE <<>>

---------------------------------------------------------------------------
(* SpecChunk: one body, any chunking *)

BodyChars == {"d", "t", "o", "a", NL, " "}
Bodies == UNION {[1..n -> BodyChars] : n \in 0..MaxBody}

\* {"delta":"Hel"}\n{"delta":"lo"}\n{"done":true,"text":"Hello"}\n
\* with "a" for Hel, "b" for lo and "c" for Hello
HelloBody == <<"d", "a", NL, "d", "b", NL, "t", "c", NL>>

WireIdle == [body |-> <<>>, rest |-> <<>>, buf |-> <<>>, out |-> <<>>,
             phase |-> "idle", chunks |-> 0]

\* res.on("data"): the next chunk is any non-empty prefix of what is left
ChunkData ==
  /\ wire.phase = "open"
  /\ \E n \in 1..Len(wire.rest) :
       LET chunk == SubSeq(wire.rest, 1, n) IN
       wire' = [wire EXCEPT
                  !.rest = SubSeq(wire.rest, n + 1, Len(wire.rest)),
                  !.buf = DataRest(wire.buf, chunk),
                  !.out = @ \o ForwardLines(DataLines(wire.buf, chunk), 1),
                  !.chunks = @ + 1]
  /\ UNCHANGED <<chatVars, explainVars, otherVars, hostVars>>

\* res.on("end")
ChunkEnd ==
  /\ wire.phase = "open"
  /\ wire.rest = <<>>
  /\ wire' = [wire EXCEPT !.out = @ \o LineEnd(wire.buf, 1),
                          !.buf = <<>>,
                          !.phase = "ended"]
  /\ UNCHANGED <<chatVars, explainVars, otherVars, hostVars>>

\* the same body received as a single chunk
OneChunk(body) ==
  IF body = <<>> THEN LineEnd(<<>>, 1)
  ELSE ForwardLines(DataLines(<<>>, body), 1)
         \o LineEnd(DataRest(<<>>, body), 1)


---------------------------------------------------------------------------
(* The bounded explanation cache (extension.ts:17-18, 106-111, 131-135) *)

\* `${term}::${languageId}`
CacheKey(term, lang) == term \o <<"::">> \o lang

\* a Map that never finds a key
CacheHasNever(c, k) == FALSE

\* explanationCache.has(k)
CacheHas(c, k) == \E i \in 1..Len(c) : c[i].key = k

\* explanationCache.get(k), for a key the cache has
CacheGet(c, k) == c[CHOOSE i \in 1..Len(c) : c[i].key = k].value

\* a set that moves a key already present to the end, as a cache that tracks
\* recency would
CacheSetMovesToEnd(c, k, v) ==
  LET NotK(e) == e.key # k IN Append(SelectSeq(c, NotK), [key |-> k, value |-> v])

\* explanationCache.set(k, v): a new key goes last, a key already present keeps
\* its place and gets the new value
CacheSet(c, k, v) ==
  IF CacheHas(c, k)
  THEN [i \in 1..Len(c) |-> IF c[i].key = k THEN [key |-> k, value |-> v] ELSE c[i]]
  ELSE Append(c, [key |-> k, value |-> v])

\* an eviction that never removes anything
CacheEvictNever(c) == c

\* an eviction that removes the newest entry instead of the oldest
CacheEvictNewest(c) == IF Len(c) > MAX_CACHE THEN Front(c) ELSE c

\* if (size > MAX_CACHE) delete(keys().next().value)
CacheEvict(c) == IF Len(c) > MAX_CACHE THEN Tail(c) ELSE c

\* the insertion of handleExplain: set, then evict
CachePut(c, k, v) == CacheEvict(CacheSet(c, k, v))

CacheKeys(c) == [i \in 1..Len(c) |-> c[i].key]

---------------------------------------------------------------------------
(* postJson and handleExplain (extension.ts:99-146, 353-403) *)

Terms == {<<"closure">>, <<"map">>}
Langs == {<<"javascript">>, <<"python">>}
Details == {<<"md1">>, <<"md2">>}

\* a response body: a JSON document of the backend's shape, or text that is
\* not JSON.  An absent or empty detail / error is <<>>.
JsonBody(ok, detail, error) ==
  [json |-> TRUE, ok |-> ok, detail |-> detail, error |-> error]
NotJson == [json |-> FALSE, ok |-> FALSE, detail |-> <<>>, error |-> <<>>]

HttpResponse(status, body) == [kind |-> "http", status |-> status, body |-> body]
TimeoutResponse == [kind |-> "timeout", status |-> 0, body |-> NotJson]
SocketError == [kind |-> "error", status |-> 0, body |-> NotJson]
NoResponse == [kind |-> "none", status |-> 0, body |-> NotJson]

\* HTTP 500 with body {"ok":false,"error":"boom"}
Boom500 == HttpResponse(500, JsonBody(FALSE, <<>>, <<"boom">>))

\* what the server, the network and the timer may answer a POST
Responses ==
  {HttpResponse(200, JsonBody(TRUE, d, <<>>)) : d \in Details}
    \cup { HttpResponse(200, JsonBody(TRUE, <<>>, <<>>)),
           HttpResponse(200, JsonBody(FALSE, <<>>, <<"boom">>)),
           HttpResponse(200, NotJson),
           Boom500,
           TimeoutResponse,
           SocketError }

\* an Error: its message, and the status and body a `HTTP ${status}: ${body}`
\* message carries
Err(msg, status, body) == [msg |-> msg, status |-> status, body |-> body]
NoErr == Err("", 0, NotJson)

\* a postJson that reads every answer as a JSON document, whatever its status
PostJsonIgnoresStatus(resp) ==
  IF resp.kind = "timeout"
  THEN [resolved |-> FALSE, data |-> NotJson, err |-> Err("Request timeout", 0, NotJson)]
  ELSE IF resp.kind = "error"
  THEN [resolved |-> FALSE, data |-> NotJson, err |-> Err("socket error", 0, NotJson)]
  ELSE IF ~resp.body.json
  THEN [resolved |-> FALSE, data |-> NotJson,
        err |-> Err("Invalid JSON from server", 0, NotJson)]
  ELSE [resolved |-> TRUE, data |-> resp.body, err |-> NoErr]

\* how the promise of postJson settles on an answer (extension.ts:378-398)
PostJsonSettle(resp) ==
  IF resp.kind = "timeout"
  THEN [resolved |-> FALSE, data |-> NotJson, err |-> Err("Request timeout", 0, NotJson)]
  ELSE IF resp.kind = "error"
  THEN [resolved |-> FALSE, data |-> NotJson, err |-> Err("socket error", 0, NotJson)]
  ELSE IF resp.status >= 400
  THEN [resolved |-> FALSE, data |-> NotJson,
        err |-> Err("HTTP", resp.status, resp.body)]
  ELSE IF ~resp.body.json
  THEN [resolved |-> FALSE, data |-> NotJson,
        err |-> Err("Invalid JSON from server", 0, NotJson)]
  ELSE [resolved |-> TRUE, data |-> resp.body, err |-> NoErr]

\* a handler that takes every resolved answer for an explanation
ExplainOkAlways(data) == TRUE

\* !(!data?.ok || !data.detail)
ExplainOk(data) == data.ok /\ data.detail # <<>>

\* a notification: n counts the notifications shown so far
Notification(n, kind, term, md, err) ==
  [n |-> n, kind |-> kind, term |-> term, md |-> md, err |-> err]
NoNotification == Notification(0, "none", <<>>, <<>>, NoErr)

\* showResult up to its popup: `${term}: ${firstLine}` with "Read more"
ShowResult(term, md) == Notification(ui.n + 1, "info", term, md, NoErr)

\* showWarningMessage(`AI Mentor: ${data?.error || "No explanation available."}`)
ShowWarning(term, data) ==
  Notification(ui.n + 1, "warning", term,
               IF data.error # <<>> THEN data.error
               ELSE <<"No explanation available.">>, NoErr)

\* showErrorMessage(`❌ Backend error: ${err.message}`)
ShowError(term, err) == Notification(ui.n + 1, "error", term, <<>>, err)

RemoveAt(q, i) == SubSeq(q, 1, i - 1) \o SubSeq(q, i + 1, Len(q))

\* handleExplain up to its await: the enabled gate, the cache hit, the POST.
\* enabled and urlOk are what the configuration holds at the call
\* (aiMentor.enabled; whether aiMentor.backendUrl parses as a URL).
HandleExplainCall(term, lang, enabled, urlOk) ==
  /\ build = "current"
  /\ lastCall.n < MaxCalls
  /\ lastCall' = [n |-> lastCall.n + 1, term |-> term, lang |-> lang,
                  enabled |-> enabled,
                  hit |-> enabled /\ CacheHas(explanationCache, CacheKey(term, lang))]
  /\ IF ~enabled
     THEN UNCHANGED <<ui, requests>>
     ELSE IF CacheHas(explanationCache, CacheKey(term, lang))
     THEN /\ ui' = ShowResult(term, CacheGet(explanationCache, CacheKey(term, lang)))
          /\ UNCHANGED requests
     ELSE IF ~urlOk
     THEN /\ ui' = ShowError(term, Err("Invalid backend URL", 0, NotJson))
          /\ UNCHANGED requests
     ELSE /\ requests' = Append(requests, [term |-> term, lang |-> lang])
          /\ UNCHANGED ui
  /\ UNCHANGED <<explanationCache, insertLog, lastInsert, lastSettle, build,
                 chatVars, wire, otherVars, statusBarItem>>

\* handleExplain called by the explainSelection command (extension.ts:43-56),
\* which does not look at lastSelectionKey
HandleExplain(term, lang, enabled, urlOk) ==
  /\ HandleExplainCall(term, lang, enabled, urlOk)
  /\ UNCHANGED <<lastSelectionKey, selectionTimeout, editor>>

\* the answer to request i arrives: postJson settles and handleExplain
\* continues after its await (extension.ts:125-145)
ExplainSettle(i, resp) ==
  LET r == requests[i]
      k == CacheKey(r.term, r.lang)
      out == PostJsonSettle(resp)
  IN
  /\ build = "current"
  /\ requests' = RemoveAt(requests, i)
  /\ lastSettle' = resp
  /\ IF out.resolved /\ ExplainOk(out.data)
     THEN /\ explanationCache' = CachePut(explanationCache, k, out.data.detail)
          /\ insertLog' = Append(insertLog,
                                 [key |-> k, fresh |-> ~CacheHas(explanationCache, k)])
          /\ lastInsert' =
               [mid |-> Len(CacheSet(explanationCache, k, out.data.detail)),
                after |-> Len(CachePut(explanationCache, k, out.data.detail))]
          /\ ui' = ShowResult(r.term, out.data.detail)
     ELSE /\ ui' = IF out.resolved THEN ShowWarning(r.term, out.data)
                   ELSE ShowError(r.term, out.err)
          /\ UNCHANGED <<explanationCache, insertLog, lastInsert>>
  /\ UNCHANGED <<lastCall, build, lastSelectionKey, chatVars, wire, otherVars, hostVars>>

---------------------------------------------------------------------------
(* The legacy build appended to extension.ts (lines 763-972): the selection
   callback holds the cache logic itself and calls the model provider *)

LegacyMaxWordLength == 50

\* !word || word.length > 50 || word.includes("\n")
LegacyWordOk(word) ==
  word # <<>> /\ Len(word) <= LegacyMaxWordLength /\ \A i \in 1..Len(word) : word[i] # NL

\* how fetchExplanation ends on an answer (extension.ts:921-940): fetch has no
\* timeout; the answer's detail stands for choices[0].message.content
FetchExplanationSettle(resp) ==
  IF resp.kind # "http"
  THEN [resolved |-> FALSE, data |-> NotJson, err |-> Err("fetch failed", 0, NotJson)]
  ELSE IF resp.status >= 400
  THEN [resolved |-> FALSE, data |-> NotJson,
        err |-> Err("HTTP", resp.status, resp.body)]
  ELSE IF ~resp.body.json
  THEN [resolved |-> FALSE, data |-> NotJson, err |-> Err("invalid json", 0, NotJson)]
  ELSE IF resp.body.detail = <<>>
  THEN [resolved |-> FALSE, data |-> NotJson,
        err |-> Err("No content returned from model.", 0, NotJson)]
  ELSE [resolved |-> TRUE, data |-> resp.body, err |-> NoErr]

\* the debounced selection callback up to its await (extension.ts:828-863);
\* apiKey is whether aiMentor.apiKey is set
LegacyCallback(word, lang, apiKey) ==
  /\ build = "legacy"
  /\ lastCall.n < MaxCalls
  /\ LegacyWordOk(word)
  /\ CacheKey(word, lang) # lastSelectionKey
  /\ lastSelectionKey' = CacheKey(word, lang)
  /\ lastCall' = [n |-> lastCall.n + 1, term |-> word, lang |-> lang,
                  enabled |-> TRUE,
                  hit |-> CacheHas(explanationCache, CacheKey(word, lang))]
  /\ IF CacheHas(explanationCache, CacheKey(word, lang))
     THEN /\ ui' = ShowResult(word, CacheGet(explanationCache, CacheKey(word, lang)))
          /\ UNCHANGED requests
     ELSE IF ~apiKey
     THEN /\ ui' = Notification(ui.n + 2, "warning", word, <<"No API key set.">>, NoErr)
          /\ UNCHANGED requests
     ELSE /\ ui' = Notification(ui.n + 1, "info", word, <<"Explaining...">>, NoErr)
          /\ requests' = Append(requests, [term |-> word, lang |-> lang])
  /\ UNCHANGED <<explanationCache, insertLog, lastInsert, lastSettle, build,
                 chatVars, wire, otherVars, statusBarItem>>

\* the callback run on the selection (word, lang), whatever timer ran it
LegacySelection(word, lang, apiKey) ==
  /\ LegacyCallback(word, lang, apiKey)
  /\ UNCHANGED <<selectionTimeout, editor>>

\* fetchExplanation ends and the callback continues (extension.ts:863-879)
LegacySettle(i, resp) ==
  LET r == requests[i]
      k == CacheKey(r.term, r.lang)
      out == FetchExplanationSettle(resp)
  IN
  /\ build = "legacy"
  /\ requests' = RemoveAt(requests, i)
  /\ lastSettle' = resp
  /\ IF out.resolved
     THEN /\ explanationCache' = CachePut(explanationCache, k, out.data.detail)
          /\ insertLog' = Append(insertLog,
                                 [key |-> k, fresh |-> ~CacheHas(explanationCache, k)])
          /\ lastInsert' =
               [mid |-> Len(CacheSet(explanationCache, k, out.data.detail)),
                after |-> Len(CachePut(explanationCache, k, out.data.detail))]
          /\ ui' = ShowResult(r.term, out.data.detail)
     ELSE /\ ui' = ShowError(r.term, out.err)
          /\ UNCHANGED <<explanationCache, insertLog, lastInsert>>
  /\ UNCHANGED <<lastCall, build, lastSelectionKey, chatVars, wire, otherVars, hostVars>>

\* the answers fetch can end with: it sets no timeout
LegacyResponses == Responses \ {TimeoutResponse}

ExplainNext ==
  \/ \E term \in Terms, lang \in Langs, enabled \in BOOLEAN, urlOk \in BOOLEAN :
       HandleExplain(term, lang, enabled, urlOk)
  \/ \E i \in 1..Len(requests), resp \in Responses : ExplainSettle(i, resp)
  \/ \E word \in Terms, lang \in Langs, apiKey \in BOOLEAN :
       LegacySelection(word, lang, apiKey)
  \/ \E i \in 1..Len(requests), resp \in LegacyResponses : LegacySettle(i, resp)


---------------------------------------------------------------------------
(* The selection watcher (extension.ts:59-77, legacy build 824-881) *)

MaxEvents == 3
MaxSelectionCalls == 2
MaxWordLength == 80

LongWord(n) == [i \in 1..n |-> "a"]

\* what the editor may hold selected besides a term: a term with white space
\* around it, white space, two lines, and a word beyond each length limit
OddSelections ==
  { <<" ", "map", NL>>, <<" ">>, <<"a", NL, "b">>,
    LongWord(LegacyMaxWordLength + 1), LongWord(MaxWordLength + 1) }

\* the selection and the language a selection event may find
Selections ==
  (Terms \X Langs) \cup (OddSelections \X {<<"javascript">>})

\* the callback's sanity check of the trimmed selection (extension.ts:67)
WordOk(word) ==
  word # <<>> /\ Len(word) <= MaxWordLength /\ \A i \in 1..Len(word) : word[i] # NL

\* a clearTimeout that cancels nothing
ClearTimeoutNoOp(pending, handle) == pending
\* clearTimeout(handle): the timer of that handle, if still pending, will not
\* fire; handle 0 is undefined, for which the code does not call it
ClearTimeout(pending, handle) == pending \ {handle}

\* onDidChangeTextEditorSelection (extension.ts:59-62 and 77; 824-828 and
\* 881): the editor now holds sel selected in a document of language lang;
\* the pending timer is cleared and a new one is set
OnSelectionChange(sel, lang) ==
  /\ editor.events < MaxEvents
  /\ editor' = [editor EXCEPT !.selection = sel, !.lang = lang,
                              !.events = editor.events + 1,
                              !.settled = lastCall.n - Len(requests)]
  /\ selectionTimeout' =
       [handle |-> editor.events + 1,
        pending |-> ClearTimeout(selectionTimeout.pending, selectionTimeout.handle)
                      \cup {editor.events + 1}]
  /\ UNCHANGED <<explainVars, chatVars, wire, otherVars, statusBarItem>>

\* the word and the key the callback computes from the editor
SelectedWord == Trim(editor.selection)
SelectedKey == CacheKey(SelectedWord, editor.lang)

\* history: timer e has fired and its callback did or did not get to the explain
TimerFired(e, called) == [event |-> e, called |-> called]

\* timer e fires after its 160 ms (extension.ts:62-76): the callback reads the
\* selection the editor has now, returns on a word that fails the check or
\* on the key of lastSelectionKey, else stores the key and calls handleExplain
SelectionTimer(e, enabled, urlOk) ==
  /\ build = "current"
  /\ e \in selectionTimeout.pending
  /\ selectionTimeout' = [selectionTimeout EXCEPT !.pending = @ \ {e}]
  /\ IF WordOk(SelectedWord) /\ SelectedKey # lastSelectionKey
     THEN /\ lastSelectionKey' = SelectedKey
          /\ HandleExplainCall(SelectedWord, editor.lang, enabled, urlOk)
          /\ editor' = [editor EXCEPT !.fired = TimerFired(e, TRUE)]
     ELSE /\ editor' = [editor EXCEPT !.fired = TimerFired(e, FALSE)]
          /\ UNCHANGED <<explainVars, chatVars, wire, otherVars, statusBarItem>>

\* timer e fires in the legacy build (extension.ts:828-880), whose callback
\* holds the lookup and the request itself
LegacySelectionTimer(e, apiKey) ==
  /\ build = "legacy"
  /\ e \in selectionTimeout.pending
  /\ selectionTimeout' = [selectionTimeout EXCEPT !.pending = @ \ {e}]
  /\ IF LegacyWordOk(SelectedWord) /\ SelectedKey # lastSelectionKey
     THEN /\ LegacyCallback(SelectedWord, editor.lang, apiKey)
          /\ editor' = [editor EXCEPT !.fired = TimerFired(e, TRUE)]
     ELSE /\ editor' = [editor EXCEPT !.fired = TimerFired(e, FALSE)]
          /\ UNCHANGED <<explainVars, chatVars, wire, otherVars, statusBarItem>>

\* the answers to a request of this session: a detail, or a failure
SelectionResponses == {HttpResponse(200, JsonBody(TRUE, <<"md1">>, <<>>)), Boom500}

\* the session goes on while handleExplain has run fewer than
\* MaxSelectionCalls times
SelectionCallsLeft == lastCall.n < MaxSelectionCalls

SelectionNext ==
  \/ \E s \in Selections : OnSelectionChange(s[1], s[2])
  \/ \E e \in 1..MaxEvents, enabled \in BOOLEAN, urlOk \in BOOLEAN :
       SelectionCallsLeft /\ SelectionTimer(e, enabled, urlOk)
  \/ \E e \in 1..MaxEvents, apiKey \in BOOLEAN :
       SelectionCallsLeft /\ LegacySelectionTimer(e, apiKey)
  \/ \E term \in {<<"map">>}, lang \in {<<"javascript">>} :
       SelectionCallsLeft /\ HandleExplain(term, lang, TRUE, TRUE)
  \/ \E i \in 1..Len(requests), resp \in SelectionResponses : ExplainSettle(i, resp)
  \/ \E i \in 1..Len(requests), resp \in SelectionResponses : LegacySettle(i, resp)

---------------------------------------------------------------------------
(* The chat panel: webview script (extension.ts:569-757) *)

Placeholder == <<"...">>                 \* the '…' of a fresh AI bubble
SeedPrompt(term) == <<"Deeply explain ">> \o term
UserText == <<"q">>                      \* what the user typed

\* a webview right after createWebviewPanel: pending = new Map(), counter = 0
NewWebview ==
  [alive |-> TRUE, counter |-> 0, pending |-> <<>>, chat |-> <<>>,
   inbox |-> <<>>, outbox |-> <<>>]

\* a bubble of the chat: turn is the id it was created as the placeholder of
\* (0: none), srcs the streams whose messages were applied to it
Bubble(role, turn, text) ==
  [role |-> role, turn |-> turn, text |-> text, rendered |-> FALSE, srcs |-> {}]

MapDelete(m, k) == [x \in DOMAIN m \ {k} |-> m[x]]

\* Spec keeps renderMarkdown abstract: the bubble shows the rendering of text
Rendered(b, text, src) ==
  [b EXCEPT !.text = text, !.rendered = TRUE, !.srcs = @ \cup {src}]

\* handleSend / the seedFromExplain branch: user bubble, new id, placeholder,
\* pending.set(id, placeholder), vscode.postMessage(userMessage)
NewTurn(w, shown, message) ==
  LET id == w.counter + 1 IN
  [w EXCEPT !.counter = id,
            !.chat = @ \o <<Bubble("user", 0, shown), Bubble("ai", id, Placeholder)>>,
            !.pending = @ @@ (id :> Len(w.chat) + 2),
            !.outbox = Append(@, [type |-> "userMessage", id |-> id,
                                  message |-> message])]

\* the aiDelta branch of the message listener
OnAiDelta(w, msg) ==
  LET delta == OrEmpty(msg.payload) IN
  IF msg.id # 0 /\ msg.id \in DOMAIN w.pending
  THEN [w EXCEPT !.chat[w.pending[msg.id]].text = @ \o delta,
                 !.chat[w.pending[msg.id]].srcs = @ \cup {msg.src}]
  ELSE [w EXCEPT !.chat = Append(@, [Bubble("ai", 0, delta) EXCEPT
                                        !.srcs = {msg.src}])]

\* the aiDone branch of the message listener
OnAiDone(w, msg) ==
  LET finalText == msg.payload IN
  IF msg.id # 0 /\ msg.id \in DOMAIN w.pending
  THEN LET i == w.pending[msg.id] IN
       [w EXCEPT !.chat[i] = IF finalText # Null
                             THEN Rendered(@, finalText, msg.src)
                             ELSE [@ EXCEPT !.srcs = @ \cup {msg.src}],
                 !.pending = MapDelete(@, msg.id)]
  ELSE IF finalText # Null /\ finalText # <<>>
  THEN [w EXCEPT !.chat = Append(@, Rendered(Bubble("ai", 0, <<>>),
                                              finalText, msg.src))]
  ELSE w

\* window.addEventListener('message', ...)
OnMessage(w, msg) ==
  IF msg.type = "aiDelta" THEN OnAiDelta(w, msg)
  ELSE IF msg.type = "aiDone" THEN OnAiDone(w, msg)
  ELSE IF msg.type = "seedFromExplain"
  THEN NewTurn(w, <<"Explain: ">> \o msg.payload, SeedPrompt(msg.payload))
  ELSE w


---------------------------------------------------------------------------
(* The chat panel: extension host (extension.ts:186-349) *)

\* `❌ Backend error: ${err.message}`
BackendErrorText == <<"Backend error: ", "socket hang up">>

\* what a server may send in one 'data' event
ChatChunks ==
  { <<"d", "a", NL>>,        \* a delta record
    <<"t", "c", NL>>,        \* a done record with the full text
    <<"o", "b">> }           \* a JSON error body, as res.status(500).json() sends it

StatusCodes == {200, 500}

RECURSIVE SeedCount(_)
SeedCount(q) ==
  IF q = <<>> THEN 0
  ELSE (IF Head(q).type = "seedFromExplain" THEN 1 ELSE 0) + SeedCount(Tail(q))

RECURSIVE TurnCount(_)
\* user turns taken or on their way, over all the webviews of ws
TurnCount(ws) ==
  IF ws = <<>> THEN 0
  ELSE Last(ws).counter + SeedCount(Last(ws).inbox) + TurnCount(Front(ws))

\* messages as they travel to a webview; src is the stream that posted them
\* (0: none)
Tag(msgs, src) ==
  [i \in 1..Len(msgs) |->
     [type |-> msgs[i].type, id |-> msgs[i].id, payload |-> msgs[i].payload,
      src |-> src]]

\* currentPanel?.webview.postMessage(m) for each m of msgs
Post(ws, msgs, src) ==
  IF currentPanel = 0 THEN ws
  ELSE [ws EXCEPT ![currentPanel].inbox = @ \o Tag(msgs, src)]

\* the messages of msgs that reached a webview
Delivered(msgs) == IF currentPanel = 0 THEN <<>> ELSE msgs

\* an openOrRevealPanel that creates a panel whether or not there is one
OpenOrRevealPanelAlwaysCreates ==
  [panel |-> Len(webviews) + 1, webviews |-> Append(webviews, NewWebview)]

\* openOrRevealPanel: the panel it returns and the webviews afterwards
OpenOrRevealPanel ==
  IF currentPanel # 0
  THEN [panel |-> currentPanel, webviews |-> webviews]
  ELSE [panel |-> Len(webviews) + 1, webviews |-> Append(webviews, NewWebview)]

CanOpen == currentPanel # 0 \/ Len(webviews) < MaxPanels

\* command ai-dev-mentor.openPanel
OpenPanel ==
  /\ CanOpen
  /\ currentPanel' = OpenOrRevealPanel.panel
  /\ webviews' = OpenOrRevealPanel.webviews
  /\ UNCHANGED <<streams, explainVars, wire, otherVars, hostVars>>

\* showResult after the user chose "Read more" (extension.ts:163-180)
ReadMore(term) ==
  /\ CanOpen
  /\ TurnCount(webviews) < MaxTurns
  /\ currentPanel' = OpenOrRevealPanel.panel
  /\ webviews' = [OpenOrRevealPanel.webviews EXCEPT
                    ![OpenOrRevealPanel.panel].inbox =
                       Append(@, [type |-> "seedFromExplain", id |-> 0,
                                  payload |-> term, src |-> 0])]
  /\ UNCHANGED <<streams, explainVars, wire, otherVars, hostVars>>

\* the user closes the panel (or deactivate disposes it): onDidDispose.  The
\* webview's document and script state are destroyed with it; the record keeps
\* only how many turns it had taken.
DisposePanel ==
  /\ currentPanel # 0
  /\ webviews' = [webviews EXCEPT
                    ![currentPanel] =
                       [NewWebview EXCEPT !.alive = FALSE,
                                          !.counter = webviews[currentPanel].counter]]
  /\ currentPanel' = 0
  /\ UNCHANGED <<streams, explainVars, wire, otherVars, hostVars>>

\* what currentPanel.dispose() leaves of the webviews ws: onDidDispose
DisposeCurrent(ws) ==
  [ws EXCEPT ![currentPanel] =
               [NewWebview EXCEPT !.alive = FALSE,
                                  !.counter = ws[currentPanel].counter]]

\* deactivate (extension.ts:91-94): the status bar entry and the panel, if
\* there is one, are disposed; the panel's onDidDispose clears currentPanel
Deactivate ==
  /\ statusBarItem = "shown"
  /\ statusBarItem' = "disposed"
  /\ IF currentPanel # 0
     THEN /\ webviews' = DisposeCurrent(webviews)
          /\ currentPanel' = 0
     ELSE UNCHANGED <<currentPanel, webviews>>
  /\ UNCHANGED <<streams, explainVars, wire, otherVars, selectionTimeout, editor>>

\* the user sends a message in webview p: handleSend
HandleSend(p) ==
  /\ webviews[p].alive
  /\ TurnCount(webviews) < MaxTurns
  /\ webviews' = [webviews EXCEPT ![p] = NewTurn(@, UserText, UserText)]
  /\ UNCHANGED <<currentPanel, streams, explainVars, wire, otherVars, hostVars>>

\* webview p handles the next message from the host
WebviewReceive(p) ==
  /\ webviews[p].alive
  /\ webviews[p].inbox # <<>>
  /\ webviews' = [webviews EXCEPT
                    ![p] = OnMessage([@ EXCEPT !.inbox = Tail(@)],
                                     Head(webviews[p].inbox))]
  /\ UNCHANGED <<currentPanel, streams, explainVars, wire, otherVars, hostVars>>

\* a streamChatToWebview that sends its request twice
NewStreamPostsTwice(id, origin) ==
  [id |-> id, origin |-> origin, phase |-> "sent", status |-> 0, buf |-> <<>>,
   nData |-> 0, relayed |-> <<>>, caught |-> <<>>, urlOk |-> TRUE, posts |-> 2]

\* the state of a call of streamChatToWebview once its request is written
\* (extension.ts:255-275, 343-344); posts counts the requests it made
NewStream(id, origin) ==
  [id |-> id, origin |-> origin, phase |-> "sent", status |-> 0, buf |-> <<>>,
   nData |-> 0, relayed |-> <<>>, caught |-> <<>>, urlOk |-> TRUE, posts |-> 1]

\* what the catch of the userMessage handler posts when new URL(streamUrl)
\* threw (extension.ts:258, 345-347, 224-231)
UrlErrorText == <<"Backend error: ", "Invalid URL">>
CatchUrlMessages(id) == <<AiDelta(id, UrlErrorText), AiDone(id, Null)>>

\* onDidReceiveMessage of panel p: a userMessage starts streamChatToWebview;
\* urlOk is whether aiMentor.backendUrl parses as a URL.  If it does not, no
\* request is made, the promise rejects and the catch posts at once.
HostReceive(p, urlOk) ==
  LET id == Head(webviews[p].outbox).id
      s == Len(streams) + 1
      ws == [webviews EXCEPT ![p].outbox = Tail(@)]
  IN
  /\ webviews[p].alive
  /\ webviews[p].outbox # <<>>
  /\ IF urlOk
     THEN /\ webviews' = ws
          /\ streams' = Append(streams, NewStream(id, p))
     ELSE /\ webviews' = Post(ws, CatchUrlMessages(id), s)
          /\ streams' = Append(streams,
                               [NewStream(id, p) EXCEPT
                                  !.phase = "rejected", !.urlOk = FALSE,
                                  !.posts = 0,
                                  !.caught = Delivered(CatchUrlMessages(id))])
  /\ UNCHANGED <<currentPanel, explainVars, wire, otherVars, hostVars>>

\* the response callback of client.request: headers arrived
Response(s, status) ==
  /\ streams[s].phase = "sent"
  /\ streams' = [streams EXCEPT ![s].phase = "open", ![s].status = status]
  /\ UNCHANGED <<currentPanel, webviews, explainVars, wire, otherVars, hostVars>>

\* res.on("data")
Data(s, chunk) ==
  /\ streams[s].phase = "open"
  /\ streams[s].nData < MaxData
  /\ LET msgs == ForwardLines(DataLines(streams[s].buf, chunk), streams[s].id) IN
     /\ streams' = [streams EXCEPT ![s].buf = DataRest(streams[s].buf, chunk),
                                   ![s].nData = @ + 1,
                                   ![s].relayed = @ \o Delivered(msgs)]
     /\ webviews' = Post(webviews, msgs, s)
  /\ UNCHANGED <<currentPanel, explainVars, wire, otherVars, hostVars>>

\* res.on("end"): the trailing buffer, then resolve()
End(s) ==
  /\ streams[s].phase = "open"
  /\ LET msgs == LineEnd(streams[s].buf, streams[s].id) IN
     /\ streams' = [streams EXCEPT ![s].buf = <<>>,
                                   ![s].phase = "resolved",
                                   ![s].relayed = @ \o Delivered(msgs)]
     /\ webviews' = Post(webviews, msgs, s)
  /\ UNCHANGED <<currentPanel, explainVars, wire, otherVars, hostVars>>

\* what the catch of the userMessage handler posts (extension.ts:224-231)
CatchMessages(id) == <<AiDelta(id, BackendErrorText), AiDone(id, Null)>>

\* req.on("error"): reject(e), and the catch of the userMessage handler
ReqError(s) ==
  /\ streams[s].phase \in {"sent", "open"}
  /\ streams' = [streams EXCEPT ![s].phase = "rejected",
                                ![s].buf = <<>>,
                                ![s].caught = Delivered(CatchMessages(streams[s].id))]
  /\ webviews' = Post(webviews, CatchMessages(streams[s].id), s)
  /\ UNCHANGED <<currentPanel, explainVars, wire, otherVars, hostVars>>

ChatNext ==
  \/ OpenPanel
  \/ \E term \in {<<"x">>} : ReadMore(term)
  \/ DisposePanel
  \/ \E p \in 1..Len(webviews) : HandleSend(p)
  \/ \E p \in 1..Len(webviews) : WebviewReceive(p)
  \/ \E p \in 1..Len(webviews), urlOk \in BOOLEAN : HostReceive(p, urlOk)
  \/ \E s \in 1..Len(streams), status \in StatusCodes : Response(s, status)
  \/ \E s \in 1..Len(streams), chunk \in ChatChunks : Data(s, chunk)
  \/ \E s \in 1..Len(streams) : End(s)
  \/ \E s \in 1..Len(streams) : ReqError(s)

---------------------------------------------------------------------------
(* The webview's Markdown renderer: escapeHtml and renderMarkdown
   (extension.ts:579-617).  A text is a sequence of characters; an entity or
   a tag the renderer writes is one element of the sequence, since no pattern
   of a later pass matches inside one. *)

\* the backtick character, which a TLA+ string cannot hold
BackTick == "[backtick]"
Fence == <<BackTick, BackTick, BackTick>>
\* \w
WordChars == {"a", "c", "h", "i", "n", "o", "p", "r", "s", "t", "y", "x", "1"}
\* the characters escapeHtml replaces
MarkupChars == {"&", "<", ">", "\""}
Entities == {"&amp;", "&lt;", "&gt;", "&quot;"}

RECURSIVE ReplaceAll(_, _, _)
\* s.replace(/c/g, rep) for a one-character pattern
ReplaceAll(s, c, rep) ==
  IF s = <<>> THEN <<>>
  ELSE (IF Head(s) = c THEN rep ELSE <<Head(s)>>) \o ReplaceAll(Tail(s), c, rep)

\* an escapeHtml that leaves the double quote alone
EscapeHtmlKeepsQuotes(t) ==
  ReplaceAll(ReplaceAll(ReplaceAll(t, "&", <<"&amp;">>), "<", <<"&lt;">>),
             ">", <<"&gt;">>)

\* escapeHtml: & first, then <, > and "
EscapeHtml(t) ==
  ReplaceAll(ReplaceAll(ReplaceAll(ReplaceAll(t, "&", <<"&amp;">>),
                                   "<", <<"&lt;">>),
                        ">", <<"&gt;">>),
             "\"", <<"&quot;">>)

\* the tags renderMarkdown writes
BlockOpen ==
  "<div class=\"code-block\"><div class=\"code-toolbar\"><span class=\"code-lang\">"
ToolbarClose ==
  "</span><div><button class=\"copy-btn\" data-action=\"copy\">Copy</button><button class=\"copy-btn\" data-action=\"insert\">Insert</button></div></div>"
CodeOpen == "<pre><code data-code=\""
AttrClose == "\">"
BlockClose == "</code></pre></div>"
InlineOpen == "<code class=\"inline\">"
InlineClose == "</code>"
ParaBreak == "</p><p>"
LineBreak == "<br>"
ParaOpen == "<p>"
ParaClose == "</p>"
RendererTags ==
  {BlockOpen, ToolbarClose, CodeOpen, AttrClose, BlockClose, InlineOpen,
   InlineClose, ParaBreak, LineBreak, ParaOpen, ParaClose}

RECURSIVE RunLength(_, _, _)
\* how many elements of s from position i on are in (inSet = TRUE) or not in
\* (inSet = FALSE) the set cs: a greedy character class
RunLength(s, i, cs) ==
  IF i > Len(s) \/ ((s[i] \in cs.chars) # cs.inSet) THEN 0
  ELSE 1 + RunLength(s, i + 1, cs)

\* the replacement function of the fence pass
CodeBlock(lang, code) ==
  LET safeCode == Trim(code)
      dataCode == ReplaceAll(safeCode, "\"", <<"&quot;">>)
  IN <<BlockOpen>> \o (IF lang = <<>> THEN <<"c", "o", "d", "e">> ELSE lang)
       \o <<ToolbarClose, CodeOpen>> \o dataCode \o <<AttrClose>> \o safeCode
       \o <<BlockClose>>

\* /```(\w+)?\n([\s\S]*?)```/ tried at the start of s
FenceMatch(s) ==
  LET k == RunLength(s, 4, [chars |-> WordChars, inSet |-> TRUE])
      nl == 4 + k
      closes == {j \in (nl + 1)..(Len(s) - 2) : SubSeq(s, j, j + 2) = Fence}
  IN IF Len(s) >= 3 /\ SubSeq(s, 1, 3) = Fence /\ nl <= Len(s) /\ s[nl] = NL
        /\ closes # {}
     THEN LET j == CHOOSE x \in closes : \A y \in closes : x <= y IN
          [found |-> TRUE, lang |-> SubSeq(s, 4, 3 + k),
           code |-> SubSeq(s, nl + 1, j - 1), end |-> j + 2]
     ELSE [found |-> FALSE, lang |-> <<>>, code |-> <<>>, end |-> 0]

RECURSIVE FencePass(_)
\* safeAll.replace(/```(\w+)?\n([\s\S]*?)```/g, ...)
FencePass(s) ==
  IF s = <<>> THEN <<>>
  ELSE LET m == FenceMatch(s) IN
       IF m.found
       THEN CodeBlock(m.lang, m.code) \o FencePass(SubSeq(s, m.end + 1, Len(s)))
       ELSE <<Head(s)>> \o FencePass(Tail(s))

RECURSIVE InlinePass(_)
\* the inline code pass: a backtick, one or more characters that are neither
\* a backtick nor a line feed, a backtick
InlinePass(s) ==
  IF s = <<>> THEN <<>>
  ELSE LET r == RunLength(s, 2, [chars |-> {BackTick, NL}, inSet |-> FALSE]) IN
       IF Head(s) = BackTick /\ r >= 1 /\ 2 + r <= Len(s) /\ s[2 + r] = BackTick
       THEN <<InlineOpen>> \o SubSeq(s, 2, 1 + r) \o <<InlineClose>>
              \o InlinePass(SubSeq(s, 3 + r, Len(s)))
       ELSE <<Head(s)>> \o InlinePass(Tail(s))

RECURSIVE ParagraphPass(_)
\* html.replace(/\n{2,}/g, "</p><p>")
ParagraphPass(s) ==
  IF s = <<>> THEN <<>>
  ELSE LET n == RunLength(s, 1, [chars |-> {NL}, inSet |-> TRUE]) IN
       IF n >= 2 THEN <<ParaBreak>> \o ParagraphPass(SubSeq(s, n + 1, Len(s)))
       ELSE <<Head(s)>> \o ParagraphPass(Tail(s))

\* "<p>" + html.replace(/\n/g, "<br>") + "</p>"
BreakPass(s) == <<ParaOpen>> \o ReplaceAll(s, NL, <<LineBreak>>) \o <<ParaClose>>

\* renderMarkdown
RenderMarkdown(md) ==
  IF md = <<>> THEN <<>>
  ELSE BreakPass(ParagraphPass(InlinePass(FencePass(EscapeHtml(md)))))

RECURSIVE Flatten(_)
Flatten(ss) == IF ss = <<>> THEN <<>> ELSE Head(ss) \o Flatten(Tail(ss))

\* what the texts of SpecRender are made of
Pieces == {Fence, <<BackTick>>, <<NL>>, <<"<">>, <<"\"">>, <<"&">>, <<"a">>}
PieceTexts(n) == {Flatten(ps) : ps \in UNION {[1..m -> Pieces] : m \in 0..n}}
LangTags == {<<>>, <<"a">>, <<"p", "y", "t", "h", "o", "n">>}

\* <script>a</script>
ScriptText ==
  <<"<", "s", "c", "r", "i", "p", "t", ">", "a", "<", "/", "s", "c", "r", "i",
    "p", "t", ">">>

\* ```lang \n body ```
FencedBlock(lang, body) == Fence \o lang \o <<NL>> \o body \o Fence

\* the body of ```python \n x = 1 \n ```
PythonBody == <<"x", " ", "=", " ", "1", NL>>

NoBlock == [is |-> FALSE, lang |-> <<>>, body |-> <<>>]
PageIdle == [input |-> <<>>, block |-> NoBlock, html |-> <<>>, phase |-> "idle"]

\* the texts given to renderMarkdown: free texts, and single fenced blocks
\* (block records how such a text was put together)
Pages ==
  {[PageIdle EXCEPT !.input = t, !.phase = "text"] :
      t \in PieceTexts(MaxPieces) \cup {ScriptText}}
  \cup
  {[PageIdle EXCEPT !.input = FencedBlock(l, b), !.phase = "text",
                    !.block = [is |-> TRUE, lang |-> l, body |-> b]] :
      l \in LangTags, b \in PieceTexts(MaxBlockPieces) \cup {PythonBody}}

\* bubble.innerHTML = renderMarkdown(finalText)
Render ==
  /\ page.phase = "text"
  /\ page' = [page EXCEPT !.html = RenderMarkdown(page.input), !.phase = "rendered"]
  /\ UNCHANGED <<chatVars, explainVars, wire, backend, promise, hostVars>>

---------------------------------------------------------------------------
(* The backend (src/unnamed/part_000) and the requests that reach it.  The
   content of an input does not matter to the endpoints, only its type and
   its length; the provider's text is a sequence of digits. *)

\* query.length > 120
MaxQueryLength == 120
\* message.length > 20000
MaxMessageLength == 20000
\* const maxChunk = 120
maxChunk == 120

Endpoints == {"explain", "chat", "chat-stream"}
MaxInputLength(endpoint) ==
  IF endpoint = "explain" THEN MaxQueryLength ELSE MaxMessageLength

\* the value of query / message in a request body
StringInput(n) == [type |-> "string", len |-> n]
NoInput == [type |-> "undefined", len |-> 0]
NumberInput == [type |-> "number", len |-> 0]
InputLengths ==
  {0, 1, 80, 81, MaxQueryLength, MaxQueryLength + 1, MaxMessageLength,
   MaxMessageLength + 1}
Inputs == {StringInput(n) : n \in InputLengths} \cup {NoInput, NumberInput}

\* !(!query || typeof query !== "string" || query.length > 120), and the same
\* test of message with 20000
InputOk(endpoint, input) ==
  /\ input.type = "string"
  /\ input.len > 0
  /\ input.len <= MaxInputLength(endpoint)

\* the i-th character of the provider's text
CharAt(i) == <<"0", "1", "2", "3", "4", "5", "6", "7", "8", "9">>[(i % 10) + 1]
TextOf(n) == [i \in 1..n |-> CharAt(i)]

\* text.slice(i, j) with 0-based i and j
Slice(text, i, j) ==
  SubSeq(text, i + 1, IF j < Len(text) THEN j ELSE Len(text))

\* records of an NDJSON body, each written with its "\n"
DeltaRecord(chunk) == [kind |-> "delta", text |-> chunk, nl |-> TRUE]
DoneRecord(text) == [kind |-> "done", text |-> text, nl |-> TRUE]
\* res.json({ ok: false, error }): one JSON document, no line feed
ErrorDocument(error) == [kind |-> "error", text |-> <<error>>, nl |-> FALSE]
\* res.json({ ok: true, ... })
OkDocument(text) == [kind |-> "ok", text |-> text, nl |-> FALSE]
ServerErrorText == <<"Server error">>

BackendIdle ==
  [phase |-> "idle", endpoint |-> "none", from |-> "none", input |-> NoInput,
   apiKey |-> FALSE, extensionPosts |-> 0, providerCalls |-> 0, status |-> 0,
   body |-> <<>>, text |-> <<>>, i |-> 0, failed |-> FALSE]

\* handleExplain on a cache miss (extension.ts:113-123): the term, a non-empty
\* selection, goes to postJson as it is.  The selection watcher passes terms
\* of up to 80 characters, the explainSelection command any selection.
UserExplain(n, apiKey) ==
  /\ backend.phase = "idle"
  /\ n > 0
  /\ backend' = [backend EXCEPT !.phase = "received", !.endpoint = "explain",
                                !.from = "extension", !.input = StringInput(n),
                                !.apiKey = apiKey, !.extensionPosts = @ + 1]
  /\ UNCHANGED <<chatVars, explainVars, wire, page, promise, hostVars>>

\* handleSend and the userMessage handler (extension.ts:633-648, 209-223): a
\* non-empty message goes to streamChatToWebview as it is
UserChat(n, apiKey) ==
  /\ backend.phase = "idle"
  /\ n > 0
  /\ backend' = [backend EXCEPT !.phase = "received", !.endpoint = "chat-stream",
                                !.from = "extension", !.input = StringInput(n),
                                !.apiKey = apiKey, !.extensionPosts = @ + 1]
  /\ UNCHANGED <<chatVars, explainVars, wire, page, promise, hostVars>>

\* a request of any other HTTP client
ClientRequest(endpoint, input, apiKey) ==
  /\ backend.phase = "idle"
  /\ backend' = [backend EXCEPT !.phase = "received", !.endpoint = endpoint,
                                !.from = "client", !.input = input,
                                !.apiKey = apiKey]
  /\ UNCHANGED <<chatVars, explainVars, wire, page, promise, hostVars>>

\* the endpoint up to its await of the provider: validation, the API key,
\* model.generateContent (part_000:34-66, 82-107, 123-163)
Validate ==
  /\ backend.phase = "received"
  /\ backend' =
       IF ~InputOk(backend.endpoint, backend.input)
       THEN [backend EXCEPT !.phase = "answered", !.status = 400,
                            !.body = <<ErrorDocument(
                                         IF backend.endpoint = "explain"
                                         THEN "Invalid 'query'."
                                         ELSE "Invalid 'message'.")>>]
       ELSE IF ~backend.apiKey
       THEN [backend EXCEPT !.phase = "answered", !.status = 500,
                            !.body = <<ErrorDocument("Server missing GEMINI_API_KEY.")>>]
       ELSE [backend EXCEPT !.phase = "calling", !.providerCalls = @ + 1]
  /\ UNCHANGED <<chatVars, explainVars, wire, page, promise, hostVars>>

\* the provider answers with a text; lead and trail are the white space
\* around it, which trim() removes
ProviderAnswers(n, lead, trail) ==
  /\ backend.phase = "calling"
  /\ LET text == Trim(lead \o TextOf(n) \o trail) IN
     backend' =
       IF backend.endpoint = "chat-stream"
       THEN [backend EXCEPT !.phase = "streaming", !.text = text, !.i = 0]
       ELSE [backend EXCEPT !.phase = "answered", !.status = 200, !.text = text,
                            !.body = <<OkDocument(text)>>]
  /\ UNCHANGED <<chatVars, explainVars, wire, page, promise, hostVars>>

\* the provider call throws: the catch of the endpoint, headers not yet sent
ProviderFails ==
  /\ backend.phase = "calling"
  /\ backend' = [backend EXCEPT !.phase = "answered", !.status = 500,
                                !.failed = TRUE,
                                !.body = <<ErrorDocument("Model error")>>]
  /\ UNCHANGED <<chatVars, explainVars, wire, page, promise, hostVars>>

\* a chunking that steps by one character less than it cuts
NextChunkStartOverlaps(i) == i + maxChunk - 1

\* i += maxChunk
NextChunkStart(i) == i + maxChunk

\* one turn of the for loop of /v1/chat-stream, up to its await of the timer
StreamWrite ==
  /\ backend.phase = "streaming"
  /\ backend.i < Len(backend.text)
  /\ backend' = [backend EXCEPT
                   !.status = 200,
                   !.body = Append(@, DeltaRecord(Slice(backend.text, backend.i,
                                                        backend.i + maxChunk))),
                   !.i = NextChunkStart(backend.i)]
  /\ UNCHANGED <<chatVars, explainVars, wire, page, promise, hostVars>>

\* the loop is over: the done record, res.end()
StreamDone ==
  /\ backend.phase = "streaming"
  /\ backend.i >= Len(backend.text)
  /\ backend' = [backend EXCEPT !.phase = "answered", !.status = 200,
                                !.body = Append(@, DoneRecord(backend.text))]
  /\ UNCHANGED <<chatVars, explainVars, wire, page, promise, hostVars>>

\* something throws while streaming (part_000:183-194): a JSON error if
\* nothing was written yet, else the error delta and the done record
StreamFails ==
  /\ backend.phase = "streaming"
  /\ backend' =
       IF backend.body = <<>>
       THEN [backend EXCEPT !.phase = "answered", !.status = 500, !.failed = TRUE,
                            !.body = <<ErrorDocument("Model error")>>]
       ELSE [backend EXCEPT !.phase = "answered", !.failed = TRUE,
                            !.body = @ \o <<DeltaRecord(ServerErrorText),
                                            DoneRecord(Null)>>]
  /\ UNCHANGED <<chatVars, explainVars, wire, page, promise, hostVars>>

TextLengths == 0..MaxTextLen

BackendNext ==
  \/ \E n \in InputLengths, apiKey \in BOOLEAN : UserExplain(n, apiKey)
  \/ \E n \in InputLengths, apiKey \in BOOLEAN : UserChat(n, apiKey)
  \/ \E endpoint \in Endpoints, input \in Inputs, apiKey \in BOOLEAN :
       ClientRequest(endpoint, input, apiKey)
  \/ Validate
  \/ \E n \in TextLengths, lead \in {<<>>, <<" ">>}, trail \in {<<>>, <<NL>>} :
       ProviderAnswers(n, lead, trail)
  \/ ProviderFails
  \/ StreamWrite
  \/ StreamDone
  \/ StreamFails

---------------------------------------------------------------------------
(* The promise of one call of postJson (extension.ts:353-403) or of
   streamChatToWebview (extension.ts:255-349) under the events of its
   request *)

Pending == [state |-> "pending", value |-> NotJson, err |-> NoErr]

\* a completion that takes the last outcome instead of the first
SettleLastWins(p, out) ==
  [state |-> IF out.resolved THEN "resolved" ELSE "rejected",
   value |-> out.data, err |-> out.err]

\* resolve(...) / reject(...) of a Promise: only the first call has an effect
Settle(p, out) ==
  IF p.state = "pending"
  THEN [state |-> IF out.resolved THEN "resolved" ELSE "rejected",
        value |-> out.data, err |-> out.err]
  ELSE p

\* how the promise of streamChatToWebview settles: resolve() on 'end' whatever
\* the status and the body, reject(e) on 'error' (extension.ts:321-341)
StreamSettle(resp) ==
  IF resp.kind = "http"
  THEN [resolved |-> TRUE, data |-> NotJson, err |-> NoErr]
  ELSE [resolved |-> FALSE, data |-> NotJson, err |-> Err("socket error", 0, NotJson)]

\* new URL(...) throws: reject before any request is made
InvalidUrl(fn) ==
  [resolved |-> FALSE, data |-> NotJson,
   err |-> Err(IF fn = "postJson" THEN "Invalid backend URL" ELSE "Invalid URL",
               0, NotJson)]

Outcome(fn, resp) ==
  IF fn = "postJson" THEN PostJsonSettle(resp) ELSE StreamSettle(resp)

\* what the server does with a request: it answers, it resets the connection,
\* it sends headers and then nothing, or it never answers
ServerBehaviours ==
  [kind : {"answers"}, resp : {r \in Responses : r.kind = "http"}]
    \cup [kind : {"resets", "hangs", "silent"}, resp : {NoResponse}]

PromiseIdle ==
  [phase |-> "idle", fn |-> "none",
   server |-> [kind |-> "none", resp |-> NoResponse],
   p |-> Pending, timer |-> FALSE, destroyed |-> FALSE, headers |-> FALSE,
   ended |-> FALSE, late |-> 0]

\* req.setTimeout(timeoutMs, ...), which only postJson calls (extension.ts:396);
\* a budget of 0 sets no timer
TimeoutArmed(fn, timeoutMs) == fn = "postJson" /\ timeoutMs > 0

\* fn sends its request to a server that behaves as `server`; urlOk is whether
\* the URL parses
Call(fn, server, urlOk) ==
  /\ promise.phase = "idle"
  /\ promise' =
       IF urlOk
       THEN [promise EXCEPT !.phase = "sent", !.fn = fn, !.server = server,
                            !.timer = TimeoutArmed(fn, 10000)]
       ELSE [promise EXCEPT !.phase = "closed", !.fn = fn, !.server = server,
                            !.p = Settle(@, InvalidUrl(fn))]
  /\ UNCHANGED <<chatVars, explainVars, wire, page, backend, hostVars>>

\* events that arrive after the promise is settled are counted
LateOk == promise.late < MaxLateEvents
Late == IF promise.p.state = "pending" THEN promise.late ELSE promise.late + 1

\* the response callback: the headers of an answer arrive
OnResponse ==
  /\ promise.phase = "sent"
  /\ promise.server.kind \in {"answers", "hangs"}
  /\ ~promise.headers
  /\ ~promise.destroyed
  /\ promise' = [promise EXCEPT !.headers = TRUE]
  /\ UNCHANGED <<chatVars, explainVars, wire, page, backend, hostVars>>

\* res.on("end")
OnEnd ==
  /\ promise.phase = "sent"
  /\ promise.server.kind = "answers"
  /\ promise.headers
  /\ ~promise.ended
  /\ ~promise.destroyed
  /\ promise' = [promise EXCEPT
                   !.p = Settle(@, Outcome(promise.fn, promise.server.resp)),
                   !.ended = TRUE]
  /\ UNCHANGED <<chatVars, explainVars, wire, page, backend, hostVars>>

\* the socket was idle for the budget: the callback of req.setTimeout destroys
\* the request with the timeout error (extension.ts:396-398).  The socket is
\* idle when the server stays silent, and after the exchange is over.
OnTimeout ==
  /\ promise.phase = "sent"
  /\ promise.timer
  /\ promise.server.kind \in {"hangs", "silent"} \/ promise.ended
  /\ ~promise.destroyed
  /\ promise' = [promise EXCEPT !.destroyed = TRUE]
  /\ UNCHANGED <<chatVars, explainVars, wire, page, backend, hostVars>>

\* req.on("error") of the destroyed request: reject(e) with the timeout error
OnTimeoutError ==
  /\ promise.phase = "sent"
  /\ promise.destroyed
  /\ LateOk
  /\ promise' = [promise EXCEPT
                   !.p = Settle(@, Outcome(promise.fn, TimeoutResponse)),
                   !.late = Late,
                   !.phase = "closed"]
  /\ UNCHANGED <<chatVars, explainVars, wire, page, backend, hostVars>>

\* req.on("error"): the connection is reset, before or after the answer
OnError ==
  /\ promise.phase = "sent"
  /\ promise.server.kind = "resets" \/ promise.ended
  /\ ~promise.destroyed
  /\ LateOk
  /\ promise' = [promise EXCEPT
                   !.p = Settle(@, Outcome(promise.fn, SocketError)),
                   !.late = Late]
  /\ UNCHANGED <<chatVars, explainVars, wire, page, backend, hostVars>>

SettleNext ==
  \/ \E fn \in {"postJson", "streamChatToWebview"}, server \in ServerBehaviours,
        urlOk \in BOOLEAN : Call(fn, server, urlOk)
  \/ OnResponse
  \/ OnEnd
  \/ OnTimeout
  \/ OnTimeoutError
  \/ OnError

ExplainInit ==
  /\ explanationCache = <<>>
  /\ requests = <<>>
  /\ ui = NoNotification
  /\ lastCall = [n |-> 0, term |-> <<>>, lang |-> <<>>, enabled |-> TRUE,
                 hit |-> FALSE]
  /\ insertLog = <<>>
  /\ lastInsert = [mid |-> 0, after |-> 0]
  /\ lastSettle = NoResponse
  /\ lastSelectionKey = <<>>

ChatInit ==
  /\ currentPanel = 0
  /\ webviews = <<>>
  /\ streams = <<>>

\* activate has run: the status bar entry is shown, no debounce timer is set,
\* nothing is selected
NoTimerFired == [event |-> 0, called |-> FALSE]
EditorIdle ==
  [selection |-> <<>>, lang |-> <<"javascript">>, events |-> 0, settled |-> 0,
   fired |-> NoTimerFired]
TimerIdle == [handle |-> 0, pending |-> {}]
HostInit ==
  /\ statusBarItem = "shown"
  /\ selectionTimeout = TimerIdle
  /\ editor = EditorIdle

OtherInit ==
  /\ page = PageIdle /\ backend = BackendIdle /\ promise = PromiseIdle
  /\ HostInit

Init ==
  ChatInit /\ ExplainInit /\ build = "current" /\ wire = WireIdle /\ OtherInit

Spec == Init /\ [][ChatNext]_vars

ChunkInit ==
  /\ ChatInit
  /\ ExplainInit
  /\ build = "current"
  /\ OtherInit
  /\ \E body \in Bodies \cup {HelloBody} :
       wire = [WireIdle EXCEPT !.body = body, !.rest = body, !.phase = "open"]

ChunkNext == ChunkData \/ ChunkEnd

InitExplain ==
  /\ ChatInit
  /\ ExplainInit
  /\ build \in {"current", "legacy"}
  /\ wire = WireIdle
  /\ OtherInit

SpecExplain == InitExplain /\ [][ExplainNext]_vars

SpecSelection == InitExplain /\ [][SelectionNext]_vars

SpecChunk == ChunkInit /\ [][ChunkNext]_vars

RenderInit ==
  /\ ChatInit /\ ExplainInit /\ build = "current" /\ wire = WireIdle
  /\ backend = BackendIdle /\ promise = PromiseIdle
  /\ HostInit
  /\ page \in Pages

RenderNext == Render

SpecRender == RenderInit /\ [][RenderNext]_vars

SpecBackend == Init /\ [][BackendNext]_vars

\* the event loop delivers every event that is due
SettleFairness ==
  /\ WF_vars(OnResponse) /\ WF_vars(OnEnd) /\ WF_vars(OnTimeout)
  /\ WF_vars(OnTimeoutError) /\ WF_vars(OnError)

SpecSettle == Init /\ [][SettleNext]_vars /\ SettleFairness

\* the explain feature and the chat panel share no state: a session exercises
\* the one, for up to MaxOutboundCalls calls, or the other, for up to
\* MaxOutboundTurns turns
ChatQuiet == currentPanel = 0 /\ webviews = <<>> /\ streams = <<>>
CallsLeft == lastCall.n < MaxOutboundCalls
ExplainQuiet ==
  /\ build = "current"
  /\ lastCall.n = 0
  /\ TurnCount(webviews) <= MaxOutboundTurns
  /\ Len(webviews) <= MaxOutboundTurns

\* what the server sends in a 'data' event of such a session: delta records
OutboundChunks == {<<"d", "a", NL>>}

OutboundNext ==
  \/ \E term \in Terms, lang \in Langs, enabled \in BOOLEAN, urlOk \in BOOLEAN :
       ChatQuiet /\ CallsLeft /\ HandleExplain(term, lang, enabled, urlOk)
  \/ \E i \in 1..Len(requests), resp \in Responses :
       ChatQuiet /\ ExplainSettle(i, resp)
  \/ \E word \in Terms, lang \in Langs, apiKey \in BOOLEAN :
       ChatQuiet /\ CallsLeft /\ LegacySelection(word, lang, apiKey)
  \/ \E i \in 1..Len(requests), resp \in LegacyResponses :
       ChatQuiet /\ LegacySettle(i, resp)
  \/ ExplainQuiet /\ OpenPanel
  \/ \E term \in {<<"x">>} : ExplainQuiet /\ ReadMore(term)
  \/ ExplainQuiet /\ DisposePanel
  \/ \E p \in 1..Len(webviews) : ExplainQuiet /\ HandleSend(p)
  \/ \E p \in 1..Len(webviews) : ExplainQuiet /\ WebviewReceive(p)
  \/ \E p \in 1..Len(webviews), urlOk \in BOOLEAN :
       ExplainQuiet /\ HostReceive(p, urlOk)
  \/ \E s \in 1..Len(streams), status \in StatusCodes :
       ExplainQuiet /\ Response(s, status)
  \/ \E s \in 1..Len(streams), chunk \in OutboundChunks :
       ExplainQuiet /\ Data(s, chunk)
  \/ \E s \in 1..Len(streams) : ExplainQuiet /\ End(s)
  \/ \E s \in 1..Len(streams) : ExplainQuiet /\ ReqError(s)

SpecOutbound == InitExplain /\ [][OutboundNext]_vars

\* the life of the panels: the commands and the webview's script run while
\* the extension is active, up to its deactivation
Active == statusBarItem = "shown"

PanelNext ==
  \/ Active /\ OpenPanel
  \/ \E term \in Terms : Active /\ ReadMore(term)
  \/ Active /\ DisposePanel
  \/ Deactivate
  \/ \E p \in 1..Len(webviews) : Active /\ HandleSend(p)
  \/ \E p \in 1..Len(webviews) : Active /\ WebviewReceive(p)
  \/ \E p \in 1..Len(webviews), urlOk \in BOOLEAN : Active /\ HostReceive(p, urlOk)
  \/ \E s \in 1..Len(streams) : ReqError(s)

SpecPanel == Init /\ [][PanelNext]_vars


---------------------------------------------------------------------------
(* Properties *)

Settled(s) == streams[s].phase \in {"resolved", "rejected"}

\* everything stream s posted to a webview, in order
PostedBy(s) == streams[s].relayed \o streams[s].caught

RECURSIVE DoneCount(_)
DoneCount(msgs) ==
  IF msgs = <<>> THEN 0
  ELSE (IF Head(msgs).type = "aiDone" THEN 1 ELSE 0) + DoneCount(Tail(msgs))

\* C1: a stream that is over, and whose panel was open all along, has posted
\* exactly one aiDone for its correlation id.
ExactlyOneTerminalEvent ==
  \A s \in 1..Len(streams) :
    (Settled(s) /\ webviews[streams[s].origin].alive)
      => DoneCount(PostedBy(s)) = 1

\* C2: once every stream is over and the webview has handled every message
\* sent to it, no placeholder is left in its pending map (nothing can remove
\* it afterwards, so a placeholder left here is left for ever).
NeverLeftThinking ==
  \A p \in 1..Len(webviews) :
    ( /\ webviews[p].alive
      /\ webviews[p].inbox = <<>>
      /\ webviews[p].outbox = <<>>
      /\ \A s \in 1..Len(streams) : Settled(s) )
      => DOMAIN webviews[p].pending = {}

\* C3: whatever the chunking, the relay has posted at the end what it posts
\* when the body arrives as one chunk; the records Hel, lo, done Hello give
\* aiDelta Hel, aiDelta lo, aiDone Hello in that order.
ChunkingInvariance ==
  wire.phase = "ended" =>
    /\ wire.out = OneChunk(wire.body)
    /\ wire.body = HelloBody =>
         wire.out = <<AiDelta(1, <<"a">>), AiDelta(1, <<"b">>), AiDone(1, <<"c">>)>>

\* C3 witness: the Hello body was received in three chunks and relayed
ChunkingWitness ==
  /\ wire.phase = "ended"
  /\ wire.body = HelloBody
  /\ wire.chunks = 3
  /\ Len(wire.out) = 3

\* C4: every message applied to the placeholder bubble of a turn comes from
\* the stream of that turn: the one started from the same webview with the
\* same id.
NoCrossContamination ==
  \A p \in 1..Len(webviews) : \A i \in 1..Len(webviews[p].chat) :
    LET b == webviews[p].chat[i] IN
    b.turn # 0 =>
      \A s \in b.srcs : streams[s].origin = p /\ streams[s].id = b.turn

\* the placeholder bubbles of turn id in webview p
TurnBubbles(p, id) ==
  {i \in 1..Len(webviews[p].chat) : webviews[p].chat[i].turn = id}

\* C5: a stream rejected after it had relayed one delta: once the webview has
\* handled its messages, the bubble of the turn holds that delta and the
\* error fragment, nothing else, and the id has left the pending map.
ResetAfterOneDelta ==
  \A s \in 1..Len(streams) :
    LET p == streams[s].origin
        id == streams[s].id
    IN
    ( /\ streams[s].phase = "rejected"
      /\ streams[s].relayed = <<AiDelta(id, <<"a">>)>>
      /\ webviews[p].alive
      /\ \A i \in 1..Len(webviews[p].inbox) : webviews[p].inbox[i].id # id )
      => /\ id \notin DOMAIN webviews[p].pending
         /\ \A i \in TurnBubbles(p, id) :
              /\ webviews[p].chat[i].text =
                   Placeholder \o <<"a">> \o BackendErrorText
              /\ ~webviews[p].chat[i].rendered
              /\ webviews[p].chat[i].srcs = {s}

\* C6: nothing a stream posts is shown in a panel other than the one it was
\* started from: after that panel is disposed its fragments and its terminal
\* event are shown nowhere.
DisposedStreamNeverShown ==
  \A p \in 1..Len(webviews) : \A i \in 1..Len(webviews[p].chat) :
    \A s \in webviews[p].chat[i].srcs : streams[s].origin = p


---------------------------------------------------------------------------
(* Properties of the explain feature *)

\* C7: the cache never holds more than MAX_CACHE entries; inside an insertion
\* the size exceeds the capacity by at most one, and an insertion that went
\* over the capacity removed exactly one entry.
CacheNeverOverCapacity ==
  /\ Len(explanationCache) <= MAX_CACHE
  /\ lastInsert.mid <= MAX_CACHE + 1
  /\ lastInsert.after <= MAX_CACHE
  /\ lastInsert.after =
       IF lastInsert.mid > MAX_CACHE THEN lastInsert.mid - 1 ELSE lastInsert.mid

\* C7 witness: the last insertion went one over the capacity and evicted
CacheOverflowWitness ==
  /\ lastInsert.mid = MAX_CACHE + 1
  /\ lastInsert.after = MAX_CACHE
  /\ Len(explanationCache) = MAX_CACHE

IsFresh(e) == e.fresh
\* the insertions of keys the cache did not hold, in order
FreshLog == SelectSeq(insertLog, IsFresh)

LastKeys(log, n) == [i \in 1..n |-> log[Len(log) - n + i].key]

\* C8 as stated: after more than MAX_CACHE insertions the cache holds exactly
\* MAX_CACHE entries, the keys of the last MAX_CACHE insertions.
MostRecentlyInsertedKept ==
  Len(insertLog) > MAX_CACHE =>
    /\ Len(explanationCache) = MAX_CACHE
    /\ {explanationCache[i].key : i \in 1..Len(explanationCache)}
         = {insertLog[i].key : i \in (Len(insertLog) - MAX_CACHE + 1)..Len(insertLog)}

\* C8 amended: after more than MAX_CACHE insertions of keys the cache did not
\* hold, the cache holds exactly MAX_CACHE entries, the keys of the last
\* MAX_CACHE such insertions, oldest first.
MostRecentFreshKept ==
  Len(FreshLog) > MAX_CACHE =>
    /\ Len(explanationCache) = MAX_CACHE
    /\ CacheKeys(explanationCache) = LastKeys(FreshLog, MAX_CACHE)

\* C8 witness: an eviction has happened, after an overwrite of a present key
FreshOverflowWitness ==
  /\ Len(FreshLog) = MAX_CACHE + 1
  /\ Len(insertLog) > Len(FreshLog)
  /\ Len(explanationCache) = MAX_CACHE

InCache(k) == \E i \in 1..Len(explanationCache) : explanationCache[i].key = k
Cached(k) ==
  explanationCache[CHOOSE i \in 1..Len(explanationCache) :
                     explanationCache[i].key = k].value

CallStep == lastCall'.n = lastCall.n + 1
CalledKey == CacheKey(lastCall'.term, lastCall'.lang)

\* C9 as stated: every call for a key the cache holds shows the cached
\* Markdown and issues no request.
CachedServedWithoutRequest ==
  [][(CallStep /\ InCache(CalledKey)) =>
       /\ requests' = requests
       /\ ui' = Notification(ui.n + 1, "info", lastCall'.term, Cached(CalledKey), NoErr)
    ]_vars

\* C9 amended: no call for a key the cache holds issues a request, and every
\* such call made while aiMentor.enabled is true shows the cached Markdown (a
\* call made while it is false shows nothing).
CachedServedWhenEnabled ==
  [][(CallStep /\ InCache(CalledKey)) =>
       /\ requests' = requests
       /\ explanationCache' = explanationCache
       /\ IF lastCall'.enabled
          THEN ui' = Notification(ui.n + 1, "info", lastCall'.term,
                                  Cached(CalledKey), NoErr)
          ELSE ui' = ui
    ]_vars

\* C9 witness: the popup shows the cached Markdown of the key last asked for,
\* which is not what the last answer carried: it was served from the cache
CacheHitWitness ==
  /\ build = "current"
  /\ ui.kind = "info"
  /\ ui.term = lastCall.term
  /\ InCache(CacheKey(lastCall.term, lastCall.lang))
  /\ ui.md = Cached(CacheKey(lastCall.term, lastCall.lang))
  /\ lastSettle.kind = "http"
  /\ lastSettle.body.detail # ui.md
  /\ requests = <<>>

SettleStep == Len(requests') < Len(requests)

\* an answer that is no explanation: no HTTP answer, a status of 400 or more,
\* a body that is not JSON, ok false, or no detail
Failing(resp) ==
  \/ resp.kind # "http"
  \/ resp.status >= 400
  \/ ~resp.body.json
  \/ ~resp.body.ok
  \/ resp.body.detail = <<>>

\* C10: a failed explain leaves the cache as it was and tells the user; for
\* HTTP 500 with {ok:false,error:'boom'} the error shown carries the status
\* 500 and the message boom.
FailedExplainLeavesCache ==
  [][(SettleStep /\ Failing(lastSettle')) =>
       /\ explanationCache' = explanationCache
       /\ ui'.n = ui.n + 1
       /\ ui'.kind \in {"warning", "error"}
       /\ lastSettle' = Boom500 =>
            /\ ui'.kind = "error"
            /\ ui'.err.status = 500
            /\ ui'.err.body.error = <<"boom">>
    ]_vars

\* C10 witness: the first explain was answered HTTP 500 boom; the error is
\* shown and the cache is empty
FailedExplainWitness ==
  /\ lastSettle = Boom500
  /\ lastCall.n = 1
  /\ ui.kind = "error"
  /\ ui.err.status = 500
  /\ ui.term = lastCall.term
  /\ explanationCache = <<>>

---------------------------------------------------------------------------
(* Properties of the relay's decoder, continued *)

NonBlank(line) == Trim(line) # <<>>
\* the non-blank lines of a body, the unterminated tail included
Records(body) == SelectSeq(SplitNL(body), NonBlank)

\* C12: when the stream has ended, every non-blank line of the body has
\* produced one delivery, in order, and a line that is not JSON was forwarded
\* as an aiDelta with the line's exact text.
NoRecordDropped ==
  wire.phase = "ended" =>
    /\ Len(wire.out) = Len(Records(wire.body))
    /\ \A i \in 1..Len(Records(wire.body)) :
         (i <= Len(wire.out) /\ ~JSONparse(Records(wire.body)[i]).ok)
           => wire.out[i] = AiDelta(1, Records(wire.body)[i])

---------------------------------------------------------------------------
(* Properties of the chat panel, continued *)

\* the stream of the turn that bubble i of webview p is the placeholder of
TurnStream(p, i) ==
  CHOOSE s \in 1..Len(streams) :
    streams[s].origin = p /\ streams[s].id = webviews[p].chat[i].turn

\* the messages a stream posted up to its first aiDone
RECURSIVE UpToDone(_)
UpToDone(msgs) ==
  IF msgs = <<>> THEN <<>>
  ELSE IF Head(msgs).type = "aiDone" THEN <<Head(msgs)>>
  ELSE <<Head(msgs)>> \o UpToDone(Tail(msgs))

RECURSIVE DeltaText(_)
\* the concatenation of the delta fragments of msgs, in order
DeltaText(msgs) ==
  IF msgs = <<>> THEN <<>>
  ELSE (IF Head(msgs).type = "aiDelta" THEN OrEmpty(Head(msgs).payload) ELSE <<>>)
         \o DeltaText(Tail(msgs))

\* C13: the bubble of a turn, once the webview has handled what the turn's
\* stream posted (and nothing of another stream), shows the server's final
\* text if a terminal event supplied one, else the concatenation of the
\* delta fragments received, in order.
StreamedTextIsConcatenation ==
  \A p \in 1..Len(webviews) : \A i \in 1..Len(webviews[p].chat) :
    LET b == webviews[p].chat[i] IN
    ( /\ b.turn # 0
      /\ \E s \in 1..Len(streams) : streams[s].origin = p /\ streams[s].id = b.turn
      /\ b.srcs = {TurnStream(p, i)}
      /\ \A k \in 1..Len(webviews[p].inbox) :
           webviews[p].inbox[k].src # TurnStream(p, i) )
    => LET got == UpToDone(PostedBy(TurnStream(p, i))) IN
       IF got # <<>> /\ Last(got).type = "aiDone" /\ Last(got).payload # Null
       THEN b.rendered /\ b.text = Last(got).payload
       ELSE ~b.rendered /\ b.text = DeltaText(got)

\* C14: a stream whose response has a status of 400 or more relays nothing of
\* the body and never resolves: its promise rejects.
ErrorStatusFailsStream ==
  \A s \in 1..Len(streams) :
    streams[s].status >= 400 =>
      /\ streams[s].relayed = <<>>
      /\ streams[s].phase # "resolved"

---------------------------------------------------------------------------
(* Properties of the explain feature, continued *)

InsertStep == Len(insertLog') = Len(insertLog) + 1
InsertedKey == insertLog'[Len(insertLog')].key

\* C17: the cache's order is the order of first insertion.  A call, served
\* from the cache or not, leaves the cache as it is; an insertion of a key
\* the cache holds leaves the order of the keys unchanged; an insertion of a
\* new key puts it last and, if the cache was full, removes the first key,
\* whether or not that key was read or overwritten since.
EvictionFollowsInsertionOrder ==
  [][ /\ CallStep => explanationCache' = explanationCache
      /\ InsertStep =>
           CacheKeys(explanationCache') =
             IF InCache(InsertedKey) THEN CacheKeys(explanationCache)
             ELSE IF Len(explanationCache) = MAX_CACHE
             THEN Append(Tail(CacheKeys(explanationCache)), InsertedKey)
             ELSE Append(CacheKeys(explanationCache), InsertedKey)
      /\ (~CallStep /\ ~InsertStep) => explanationCache' = explanationCache
    ]_vars

\* C17 witness: the last call read its key from the cache, and the key has
\* been evicted since, by the insertion of a new key into the full cache
HitThenEvictedWitness ==
  /\ build = "current"
  /\ lastCall.hit
  /\ ~InCache(CacheKey(lastCall.term, lastCall.lang))
  /\ Len(explanationCache) = MAX_CACHE
  /\ lastInsert.mid = MAX_CACHE + 1

---------------------------------------------------------------------------
(* Properties of the Markdown renderer *)

Elements(s) == {s[i] : i \in 1..Len(s)}

\* C18: whatever the input, the rendered text holds no '<', '>', '&' or '"'
\* of its own: each of its elements is a tag the renderer writes, an entity,
\* or a character of the input that is no markup character (or of the
\* default language name), in element content and in the data-code attribute
\* alike; <script>a</script> comes out as one paragraph of escaped text.
OnlyRendererMarkup ==
  page.phase = "rendered" =>
    /\ Elements(page.html) \cap MarkupChars = {}
    /\ Elements(page.html) \subseteq
         RendererTags \cup Entities
           \cup (Elements(page.input) \ MarkupChars) \cup {"c", "o", "d", "e"}
    /\ \A i \in 1..Len(page.html) :
         page.html[i] = CodeOpen =>
           \E j \in (i + 1)..Len(page.html) :
             /\ page.html[j] = AttrClose
             /\ \A k \in (i + 1)..(j - 1) : page.html[k] \notin MarkupChars
    /\ page.input = ScriptText =>
         page.html = <<ParaOpen, "&lt;", "s", "c", "r", "i", "p", "t", "&gt;", "a",
                       "&lt;", "/", "s", "c", "r", "i", "p", "t", "&gt;", ParaClose>>

\* C18 witness: a rendered code block whose body held a '<', a '"' and a '&'
EscapedCodeBlockWitness ==
  /\ page.phase = "rendered"
  /\ page.block.is
  /\ {"<", "\"", "&"} \subseteq Elements(page.block.body)
  /\ CodeOpen \in Elements(page.html)
  /\ {"&lt;", "&quot;", "&amp;"} \subseteq Elements(page.html)

\* a fenced block whose body holds no fence of its own, so that the closing
\* fence is the one that ends the text
WellFormedBlock(b) ==
  /\ b.is
  /\ \A j \in 1..Len(b.body) : SubSeq(b.body \o Fence, j, j + 2) # Fence

\* C19: a well-formed fenced block is rendered as one code block with its
\* language tag and its escaped body, trimmed, in the element and in the
\* data-code attribute; the later passes change nothing in it.
FencedBlockVerbatim ==
  (page.phase = "rendered" /\ WellFormedBlock(page.block)) =>
    page.html = <<ParaOpen>>
                  \o CodeBlock(page.block.lang, EscapeHtml(page.block.body))
                  \o <<ParaClose>>

---------------------------------------------------------------------------
(* Properties of the backend and of the requests that reach it *)

\* C11: a request whose input is not a non-empty string of at most the
\* maximum length has caused no network call, neither the extension's POST
\* nor a call of the model provider, and is answered with status 400; a
\* request made without an API key has caused no call of the provider; an
\* input of exactly the maximum length, with a key, reaches the provider.
ValidationPrecedesNetwork ==
  backend.phase # "idle" =>
    /\ ~InputOk(backend.endpoint, backend.input) =>
         /\ backend.extensionPosts = 0
         /\ backend.providerCalls = 0
         /\ backend.phase = "answered" => backend.status = 400
    /\ ~backend.apiKey => backend.providerCalls = 0
    /\ ( /\ backend.input = StringInput(MaxInputLength(backend.endpoint))
         /\ backend.apiKey
         /\ backend.phase \notin {"received"} )
       => backend.providerCalls = 1

RECURSIVE RecordsText(_)
\* the texts of the records of a body, concatenated in order
RecordsText(body) ==
  IF body = <<>> THEN <<>> ELSE Head(body).text \o RecordsText(Tail(body))

CeilDiv(n, d) == (n + d - 1) \div d

\* C20: the body of an answered /v1/chat-stream request whose provider call
\* gave the text T is ceil(len(T)/120) delta records of 1 to 120 characters
\* that concatenate to T, then one done record with T, each ended by a line
\* feed, and nothing else; if the stream failed after the first write, the
\* body ends with the error delta and one done record with text null.
StreamBodyShape ==
  ( /\ backend.endpoint = "chat-stream"
    /\ backend.phase = "answered"
    /\ backend.status = 200 )
  => LET body == backend.body
         n == Len(body)
     IN
     /\ n >= 1
     /\ \A k \in 1..n : body[k].nl
     /\ \A k \in 1..(n - 1) :
          body[k].kind = "delta" /\ Len(body[k].text) \in 1..maxChunk
     /\ IF backend.failed
        THEN /\ n >= 3
             /\ body[n - 1] = DeltaRecord(ServerErrorText)
             /\ body[n] = DoneRecord(Null)
        ELSE /\ body[n] = DoneRecord(backend.text)
             /\ n - 1 = CeilDiv(Len(backend.text), maxChunk)
             /\ RecordsText(Front(body)) = backend.text

\* C20 witness: a text of two full chunks and one character more has been
\* streamed to its end
ThreeChunksWitness ==
  /\ backend.endpoint = "chat-stream"
  /\ backend.phase = "answered"
  /\ ~backend.failed
  /\ Len(backend.text) = 2 * maxChunk + 1
  /\ Len(backend.body) = 4

---------------------------------------------------------------------------
(* Properties of the promises of postJson and streamChatToWebview *)

TimedOut ==
  [state |-> "rejected", value |-> NotJson,
   err |-> Err("Request timeout", 0, NotJson)]

---------------------------------------------------------------------------
(* Properties of the outbound requests *)

\* a panel's userMessage is taken by the host
ReceiveStep ==
  \E p \in 1..Len(webviews) :
    /\ Len(webviews') = Len(webviews)
    /\ webviews'[p].alive
    /\ Len(webviews'[p].outbox) < Len(webviews[p].outbox)

\* apart from the stream a step adds, the requests made by every stream are
\* what they were
PostsKept == \A s \in 1..Len(streams) : streams'[s].posts = streams[s].posts

\* no step but a call of handleExplain adds a request; a call adds at most
\* one; the step that ends a request, however it ends, adds none
OneRequestPerExplain ==
  /\ Len(requests') <= Len(requests) + 1
  /\ Len(requests') > Len(requests) => CallStep
  /\ ui' # ui /\ ~CallStep => Len(requests') = Len(requests) - 1

\* C16 as stated: each call of handleExplain issues at most one POST, each
\* userMessage the host receives issues exactly one POST, and no other step
\* issues any.
ExactlyOnePostPerMessage ==
  [][ /\ OneRequestPerExplain
      /\ Len(streams') >= Len(streams) /\ PostsKept
      /\ IF ReceiveStep
         THEN Len(streams') = Len(streams) + 1 /\ Last(streams').posts = 1
         ELSE Len(streams') = Len(streams)
    ]_vars

\* C16 amended: each call of handleExplain issues at most one POST; each
\* userMessage the host receives issues one POST if aiMentor.backendUrl is a
\* well-formed URL and none if it is not; no other step issues any, so that
\* nothing is retried and overlapping calls for one key issue one POST each
\* at most.
AtMostOnePostPerAction ==
  [][ /\ OneRequestPerExplain
      /\ Len(streams') >= Len(streams) /\ PostsKept
      /\ IF ReceiveStep
         THEN /\ Len(streams') = Len(streams) + 1
              /\ Last(streams').posts = IF Last(streams').urlOk THEN 1 ELSE 0
         ELSE Len(streams') = Len(streams)
    ]_vars

\* C16 witness: two calls for one key overlapped and each has one request
\* under way
OverlappingExplainsWitness ==
  /\ lastCall.n = 2
  /\ Len(requests) = 2
  /\ requests[1] = requests[2]

---------------------------------------------------------------------------
(* Properties of the panel's life *)

LivePanels == {p \in 1..Len(webviews) : webviews[p].alive}

\* C21: at most one panel is live, and currentPanel is that panel exactly
\* when there is one; a panel is created only when currentPanel is undefined,
\* and becomes currentPanel; while currentPanel is defined, every command
\* that opens the panel keeps it; every disposal, by the user or by
\* deactivate, leaves currentPanel undefined.
AtMostOneLivePanel ==
  /\ [](/\ Cardinality(LivePanels) <= 1
        /\ currentPanel = 0 <=> LivePanels = {}
        /\ currentPanel # 0 => LivePanels = {currentPanel})
  /\ [][ /\ Len(webviews') >= Len(webviews)
         /\ Len(webviews') > Len(webviews) =>
              /\ currentPanel = 0
              /\ Len(webviews') = Len(webviews) + 1
              /\ currentPanel' = Len(webviews')
         /\ (currentPanel # 0 /\ currentPanel' # 0) => currentPanel' = currentPanel
         /\ LivePanels \ LivePanels' # {} => currentPanel' = 0
       ]_vars

\* C21 witness: a panel was closed, the panel was opened again as a new one,
\* and deactivate has disposed it
ReopenedThenDeactivatedWitness ==
  /\ statusBarItem = "disposed"
  /\ Len(webviews) = 2
  /\ LivePanels = {}
  /\ currentPanel = 0

---------------------------------------------------------------------------
(* Properties of the selection watcher *)

\* a debounce timer fires; FiredTimers is the timers that did
TimerFires ==
  /\ editor'.events = editor.events
  /\ selectionTimeout'.pending # selectionTimeout.pending
FiredTimers == selectionTimeout.pending \ selectionTimeout'.pending

\* C22: the only timer that can be pending, and so the only one that fires, is
\* the one set by the last selection event, and a handleExplain it triggers is
\* for the selection of that event; a timer that finds the key of
\* lastSelectionKey triggers no handleExplain, requests nothing and shows
\* nothing; a timer that triggers handleExplain stores the key in
\* lastSelectionKey in the step that makes the request, and nothing else
\* changes lastSelectionKey, neither the end of a request, failed or not, nor
\* the explainSelection command, so that after a failed explain the same
\* selection triggers nothing until a timer has stored another key.
DebouncedAndDeduplicated ==
  /\ [](selectionTimeout.pending \subseteq {editor.events})
  /\ [][TimerFires =>
         /\ FiredTimers = {editor.events}
         /\ SelectedKey = lastSelectionKey =>
              ~CallStep /\ requests' = requests /\ ui' = ui
         /\ CallStep =>
              /\ lastCall'.term = SelectedWord
              /\ lastCall'.lang = editor.lang
              /\ SelectedKey # lastSelectionKey
              /\ lastSelectionKey' = SelectedKey
         /\ ~CallStep =>
              /\ lastSelectionKey' = lastSelectionKey
              /\ requests' = requests
       ]_vars
  /\ [][~TimerFires => lastSelectionKey' = lastSelectionKey]_vars

\* C22 witness: the one explain made so far was triggered by a selection and
\* has failed; after that the same word was selected again, its timer has
\* fired and has not called handleExplain
ReselectedAfterFailureWitness ==
  /\ editor.events >= 2
  /\ selectionTimeout.pending = {}
  /\ editor.fired = [event |-> editor.events, called |-> FALSE]
  /\ editor.settled = 1
  /\ SelectedKey = lastSelectionKey
  /\ lastCall.n = 1
  /\ CacheKey(lastCall.term, lastCall.lang) = SelectedKey
  /\ requests = <<>>
  /\ lastSettle # NoResponse
  /\ Failing(lastSettle)
  /\ explanationCache = <<>>

============================================================================
